---- MODULE Spec2Model ----
(***************************************************************************)
(* STM M24C EEPROM driver (src/eeprom_m24c.h).                             *)
(*                                                                         *)
(* The driver EepromM24C<M24C16> is modelled statement by statement: the   *)
(* program counter of a frame is the source line of the next statement to  *)
(* execute, and every call into the I2C_M24C interface is one step.  The   *)
(* interface is pure virtual in the sources; its behaviour is modelled     *)
(* from the contract its comments give, driving an M24C16 device (2048     *)
(* bytes, 16-byte pages, address bits 8-10 carried in bits 1-3 of the      *)
(* device select code).                                                    *)
(***************************************************************************)
EXTENDS Integers, Sequences, FiniteSets, TLC

VARIABLES
    stack,      \* call stack of driver frames, innermost first
    buffer,     \* the caller's buffer that a void *data argument points into
    script,     \* public calls the caller has still to make
    ncalls,     \* public calls that have returned
    retval,     \* value returned by the last ReadByte / ReadHalfWord
    err,        \* transport: the peripheral is in the error state
    faults,     \* transient bus faults the environment may still inject
    wire,       \* transport calls made in the current attempt (do-while pass)
    ntx,        \* attempts completed since the current public call started
    ninit,      \* calls of I2C_M24C::Init since the current public call started
    nerr,       \* bus faults injected since the current public call started
    seed,       \* device: selects the memory content at the start, Blank(seed, a)
    mem,        \* device: the pages written since the start, page number -> bytes
    devPhase,   \* device: "idle", "addr", "data" or "read"
    devPtr,     \* device: internal address counter
    devBuf,     \* device: page-write latches, <<address, byte>> pairs
    memAtCall   \* mem when the current public call was made

vars == <<stack, buffer, script, ncalls, retval, err, faults, wire, ntx, ninit,
          nerr, seed, mem, devPhase, devPtr, devBuf, memAtCall>>

dev == <<seed, mem, devPhase, devPtr, devBuf>>

----------------------------------------------------------------------------
(* Program constants *)

PAGE_SIZE == 16
MEMORY_SIZE == 2048
DEVICE_ID == 160
CHIP_ENABLE_ADRESS_MASK == 14
CHIP_ENABLE_ADRESS_SHIFT == 7
TX == 0
RX == 1
ERASE_VALUE == 255

(* Bounds of the model *)

MaxErrors == 1
MaxBlock == 35

----------------------------------------------------------------------------
(* Fixed-width integer arithmetic *)

U8(x) == x % 256
U16(x) == x % 65536

RECURSIVE BitAnd(_, _)
BitAnd(a, b) ==
    IF a = 0 \/ b = 0 THEN 0
    ELSE (IF a % 2 = 1 /\ b % 2 = 1 THEN 1 ELSE 0) + 2 * BitAnd(a \div 2, b \div 2)

RECURSIVE BitOr(_, _)
BitOr(a, b) ==
    IF a = 0 THEN b
    ELSE IF b = 0 THEN a
    ELSE (IF a % 2 = 1 \/ b % 2 = 1 THEN 1 ELSE 0) + 2 * BitOr(a \div 2, b \div 2)

RECURSIVE Pow2(_)
Pow2(n) == IF n = 0 THEN 1 ELSE 2 * Pow2(n - 1)

ShiftRight(a, n) == a \div Pow2(n)

----------------------------------------------------------------------------
(* Device select code *)

HandleDeviceSelectCode_Shift8(address) ==
    U8(BitOr(DEVICE_ID, BitAnd(ShiftRight(address, 8), CHIP_ENABLE_ADRESS_MASK)))

HandleDeviceSelectCode_NoMask(address) ==
    U8(BitOr(DEVICE_ID, ShiftRight(address, CHIP_ENABLE_ADRESS_SHIFT)))

HandleDeviceSelectCode(address) ==
    U8(BitOr(DEVICE_ID,
             BitAnd(ShiftRight(address, CHIP_ENABLE_ADRESS_SHIFT),
                    CHIP_ENABLE_ADRESS_MASK)))

----------------------------------------------------------------------------
(* The M24C16 device on the bus *)

Addrs == 0 .. (MEMORY_SIZE - 1)

\* Address bits 8-10 as carried by bits 1-3 of a device select code.
BlockOf(device_id) == ((device_id \div 2) % 8) * 256

\* The address counter after a page-write byte: it wraps inside the page.
PageInc(p) == (p \div PAGE_SIZE) * PAGE_SIZE + ((p + 1) % PAGE_SIZE)

\* The memory content before anything was written.
Blank(s, a) == (a * s + s) % 256

\* The memory is held page by page, and only the pages written so far: a
\* page is its 16 bytes, or the single byte <<v>> when all 16 are v.
PageOf(a) == a \div PAGE_SIZE

\* The byte at address a when m holds the pages written so far.
MemAt(m, a) ==
    IF PageOf(a) \notin DOMAIN m THEN Blank(seed, a)
    ELSE IF Len(m[PageOf(a)]) = 1 THEN m[PageOf(a)][1]
    ELSE m[PageOf(a)][(a % PAGE_SIZE) + 1]

\* The addresses written so far.
Written(m) == UNION {{p * PAGE_SIZE + k : k \in 0 .. (PAGE_SIZE - 1)} : p \in DOMAIN m}

Packed(bytes) ==
    IF \A k \in 1 .. Len(bytes) : bytes[k] = bytes[1] THEN <<bytes[1]>> ELSE bytes

\* The byte latched last for address a, or -1 when none was.
Latched(latches, a) ==
    LET at == {j \in 1 .. Len(latches) : latches[j][1] = a}
    IN  IF at = {} THEN -1
        ELSE latches[CHOOSE j \in at : \A i \in at : i <= j][2]

\* The write cycle: the latched bytes go to memory, and where two were
\* latched for one address the later one stays.
Commit(m, latches) ==
    LET pages == {PageOf(latches[j][1]) : j \in 1 .. Len(latches)}
        Bytes(p) == [k \in 1 .. PAGE_SIZE |->
                        IF Latched(latches, p * PAGE_SIZE + k - 1) >= 0
                        THEN Latched(latches, p * PAGE_SIZE + k - 1)
                        ELSE MemAt(m, p * PAGE_SIZE + k - 1)]
    IN  [p \in DOMAIN m \cup pages |->
            IF p \in pages THEN Packed(Bytes(p)) ELSE m[p]]

DevStart(device_id, mode) ==
    /\ devPhase' = IF mode = TX THEN "addr" ELSE "read"
    /\ devPtr' = BlockOf(device_id) + (devPtr % 256)
    /\ devBuf' = <<>>
    /\ UNCHANGED <<seed, mem>>

DevWrite(data) ==
    /\ UNCHANGED <<seed, mem>>
    /\ CASE devPhase = "addr" ->
              /\ devPtr' = (devPtr \div 256) * 256 + data
              /\ devPhase' = "data"
              /\ devBuf' = devBuf
         [] devPhase = "data" ->
              /\ devBuf' = Append(devBuf, <<devPtr, data>>)
              /\ devPtr' = PageInc(devPtr)
              /\ devPhase' = devPhase
         [] OTHER -> UNCHANGED <<devPtr, devPhase, devBuf>>

DevStop ==
    /\ mem' = IF devPhase = "data" THEN Commit(mem, devBuf) ELSE mem
    /\ devPhase' = "idle"
    /\ devBuf' = <<>>
    /\ UNCHANGED <<seed, devPtr>>

\* The bytes a sequential read of n bytes delivers, first byte first.
DevReadSeq(n) == [k \in 1 .. n |-> MemAt(mem, (devPtr + k - 1) % MEMORY_SIZE)]

DevRead(n) ==
    /\ devPtr' = (devPtr + n) % MEMORY_SIZE
    /\ devPhase' = "idle"
    /\ UNCHANGED <<seed, mem, devBuf>>

DevReset ==
    /\ devPhase' = "idle"
    /\ devBuf' = <<>>
    /\ UNCHANGED <<seed, mem, devPtr>>

----------------------------------------------------------------------------
(* The transport, interface I2C_M24C.  A call that drives the bus may fail  *)
(* and set the error state; the failing call and every later one reach the  *)
(* device no more, until Init clears the state and releases the bus.        *)

\* Whether the call being made may fail: the environment injects a bounded
\* number of transient faults, and none while the error state is already set.
Faults == IF ~err /\ faults > 0 THEN {FALSE, TRUE} ELSE {FALSE}

\* What a read primitive hands back when it could not read the bus.
Garbage == {0, 238}

Fail(f) ==
    /\ err' = TRUE
    /\ faults' = IF f THEN faults - 1 ELSE faults
    /\ nerr' = IF f THEN nerr + 1 ELSE nerr
    /\ UNCHANGED dev

I2C_IsStateError == err

I2C_Init ==
    /\ err' = FALSE
    /\ UNCHANGED <<faults, nerr>>
    /\ ninit' = ninit + 1
    /\ DevReset

I2C_StartPolling(device_id, mode, set_pos_bit) ==
    /\ ninit' = ninit
    /\ \E f \in Faults :
         IF err \/ f THEN Fail(f)
         ELSE /\ DevStart(device_id, mode)
              /\ UNCHANGED <<err, faults, nerr>>

I2C_WriteByte(data) ==
    /\ ninit' = ninit
    /\ \E f \in Faults :
         IF err \/ f THEN Fail(f)
         ELSE /\ DevWrite(data)
              /\ UNCHANGED <<err, faults, nerr>>

I2C_Stop ==
    /\ ninit' = ninit
    /\ \E f \in Faults :
         IF err \/ f THEN Fail(f)
         ELSE /\ DevStop
              /\ UNCHANGED <<err, faults, nerr>>

\* What ReadByte, ReadHalfWord or ReadMultipleBytes may hand back for n bytes.
ReadResults(n) ==
    {DevReadSeq(n)} \cup {[k \in 1 .. n |-> g] : g \in Garbage}

\* ReadByte, ReadHalfWord and ReadMultipleBytes (I2C STOP included): bytes
\* is the sequence of n bytes handed to the driver.
I2C_Read(n, bytes) ==
    /\ ninit' = ninit
    /\ \E f \in Faults :
         IF err \/ f \/ devPhase # "read"
         THEN /\ Fail(f)
              /\ bytes \in {[k \in 1 .. n |-> g] : g \in Garbage}
         ELSE /\ DevRead(n)
              /\ bytes = DevReadSeq(n)
              /\ UNCHANGED <<err, faults, nerr>>

----------------------------------------------------------------------------
(* Driver frames.  pc is the source line of the next statement. *)

Frame(fn, pc, data, address, value, data_size) ==
    [fn |-> fn, pc |-> pc, data |-> data, address |-> address,
     value |-> value, data_size |-> data_size, device_code |-> 0,
     i |-> 0, read_value |-> 0, remaining_full_pages |-> 0]

Top == stack[1]

In(fn, pc) == stack # <<>> /\ Top.fn = fn /\ Top.pc = pc

\* The innermost frame becomes f.
Set(f) == stack' = <<f>> \o Tail(stack)

Goto(pc) == Set([Top EXCEPT !.pc = pc])

\* Call callee; the caller resumes at line resume.
Invoke(callee, resume) ==
    stack' = <<callee, [Top EXCEPT !.pc = resume]>> \o Tail(stack)

Zeros(n) == [k \in 1 .. n |-> 0]

\* Return v from the innermost frame.
Return(v) ==
    /\ stack' = Tail(stack)
    /\ IF Len(stack) = 1
       THEN ncalls' = ncalls + 1 /\ retval' = v
       ELSE UNCHANGED <<ncalls, retval>>

Sent(call) == wire' = Append(wire, call)

----------------------------------------------------------------------------
(* The statements of the retry loop every operation is built from *)

PreCheck_AlwaysInit(pcInit, pcStart) ==
    /\ wire' = << <<"IsStateError", I2C_IsStateError>> >>
    /\ Goto(pcInit)
    /\ UNCHANGED <<buffer, script, ncalls, retval, err, faults, ntx, ninit,
                   nerr, dev, memAtCall>>

\* do { if (i2c.IsStateError())
PreCheck(pcInit, pcStart) ==
    /\ wire' = << <<"IsStateError", I2C_IsStateError>> >>
    /\ Goto(IF I2C_IsStateError THEN pcInit ELSE pcStart)
    /\ UNCHANGED <<buffer, script, ncalls, retval, err, faults, ntx, ninit,
                   nerr, dev, memAtCall>>

\* i2c.Init();
InitStep(pcNext) ==
    /\ I2C_Init
    /\ Sent(<<"Init">>)
    /\ Goto(pcNext)
    /\ UNCHANGED <<buffer, script, ncalls, retval, ntx, memAtCall>>

StartStep_AlwaysTX(mode, set_pos_bit, pcNext) ==
    /\ I2C_StartPolling(Top.device_code, TX, set_pos_bit)
    /\ Sent(<<"StartPolling", Top.device_code, TX, set_pos_bit>>)
    /\ Goto(pcNext)
    /\ UNCHANGED <<buffer, script, ncalls, retval, ntx, memAtCall>>

\* i2c.StartPolling(device_code, mode [, set_pos_bit]);
StartStep(mode, set_pos_bit, pcNext) ==
    /\ I2C_StartPolling(Top.device_code, mode, set_pos_bit)
    /\ Sent(<<"StartPolling", Top.device_code, mode, set_pos_bit>>)
    /\ Goto(pcNext)
    /\ UNCHANGED <<buffer, script, ncalls, retval, ntx, memAtCall>>

\* i2c.WriteByte(byte);  f is the frame after the statement.
SendStep(byte, f) ==
    /\ I2C_WriteByte(byte)
    /\ Sent(<<"WriteByte", byte>>)
    /\ Set(f)
    /\ UNCHANGED <<buffer, script, ncalls, retval, ntx, memAtCall>>

StopStep_SkipOnError(pcNext) ==
    /\ IF I2C_IsStateError
       THEN UNCHANGED <<err, faults, nerr, ninit, dev, wire>>
       ELSE I2C_Stop /\ Sent(<<"Stop">>)
    /\ Goto(pcNext)
    /\ UNCHANGED <<buffer, script, ncalls, retval, ntx, memAtCall>>

\* i2c.Stop();
StopStep(pcNext) ==
    /\ I2C_Stop
    /\ Sent(<<"Stop">>)
    /\ Goto(pcNext)
    /\ UNCHANGED <<buffer, script, ncalls, retval, ntx, memAtCall>>

PostCheck_NoRetry(pcLoop, v) ==
    /\ Sent(<<"IsStateError", I2C_IsStateError>>)
    /\ ntx' = ntx + 1
    /\ Return(v)
    /\ UNCHANGED <<buffer, script, err, faults, ninit, nerr, dev, memAtCall>>

PostCheck_Resume(pcLoop, v) ==
    /\ Sent(<<"IsStateError", I2C_IsStateError>>)
    /\ ntx' = ntx + 1
    /\ IF I2C_IsStateError
       THEN Goto(pcLoop + 5) /\ UNCHANGED <<ncalls, retval>>
       ELSE Return(v)
    /\ UNCHANGED <<buffer, script, err, faults, ninit, nerr, dev, memAtCall>>

PostCheck_Inverted(pcLoop, v) ==
    /\ Sent(<<"IsStateError", I2C_IsStateError>>)
    /\ ntx' = ntx + 1
    /\ IF ~I2C_IsStateError
       THEN Goto(pcLoop) /\ UNCHANGED <<ncalls, retval>>
       ELSE Return(v)
    /\ UNCHANGED <<buffer, script, err, faults, ninit, nerr, dev, memAtCall>>

\* } while (i2c.IsStateError());  [return v;]
PostCheck(pcLoop, v) ==
    /\ Sent(<<"IsStateError", I2C_IsStateError>>)
    /\ ntx' = ntx + 1
    /\ IF I2C_IsStateError
       THEN Goto(pcLoop) /\ UNCHANGED <<ncalls, retval>>
       ELSE Return(v)
    /\ UNCHANGED <<buffer, script, err, faults, ninit, nerr, dev, memAtCall>>

\* uint8_t device_code = HandleDeviceSelectCode(address);
SelectStep(pcNext) ==
    /\ Set([Top EXCEPT !.device_code = HandleDeviceSelectCode(Top.address),
                       !.pc = pcNext])
    /\ UNCHANGED <<buffer, script, ncalls, retval, err, faults, wire, ntx,
                   ninit, nerr, dev, memAtCall>>

AddressByte_PageStart(address) == U8((address \div PAGE_SIZE) * PAGE_SIZE)

\* static_cast<uint8_t>(address): the intra-device address byte.
AddressByte(address) == U8(address)

\* static_cast<uint8_t>(value): the first data byte of a halfword.
LowByte_High(value) == U8(ShiftRight(value, 8))

LowByte(value) == U8(value)

\* static_cast<uint8_t>(value >> 8): the second data byte of a halfword.
HighByte(value) == U8(ShiftRight(value, 8))

\* *(data + i): a read past the end of the caller's buffer yields any byte.
BufAt(k) == IF k \in DOMAIN buffer THEN {buffer[k]} ELSE Garbage

----------------------------------------------------------------------------
(* EepromM24C::WriteByte *)

WriteByte_ValueFirst ==
    \/ In("WriteByte", 183) /\ SelectStep(187)
    \/ In("WriteByte", 187) /\ PreCheck(189, 192)
    \/ In("WriteByte", 189) /\ InitStep(192)
    \/ In("WriteByte", 192) /\ StartStep(TX, FALSE, 193)
    \/ In("WriteByte", 193) /\ SendStep(Top.value, [Top EXCEPT !.pc = 194])
    \/ In("WriteByte", 194)
         /\ SendStep(AddressByte(Top.address), [Top EXCEPT !.pc = 195])
    \/ In("WriteByte", 195) /\ StopStep(197)
    \/ In("WriteByte", 197) /\ PostCheck(187, 0)

WriteByte ==
    \/ In("WriteByte", 183) /\ SelectStep(187)
    \/ In("WriteByte", 187) /\ PreCheck(189, 192)
    \/ In("WriteByte", 189) /\ InitStep(192)
    \/ In("WriteByte", 192) /\ StartStep(TX, FALSE, 193)
    \/ In("WriteByte", 193) /\ SendStep(AddressByte(Top.address), [Top EXCEPT !.pc = 194])
    \/ In("WriteByte", 194) /\ SendStep(Top.value, [Top EXCEPT !.pc = 195])
    \/ In("WriteByte", 195) /\ StopStep(197)
    \/ In("WriteByte", 197) /\ PostCheck(187, 0)

(* EepromM24C::WriteHalfWord *)

WriteHalfWord ==
    \/ In("WriteHalfWord", 208) /\ SelectStep(212)
    \/ In("WriteHalfWord", 212) /\ PreCheck(214, 217)
    \/ In("WriteHalfWord", 214) /\ InitStep(217)
    \/ In("WriteHalfWord", 217) /\ StartStep(TX, FALSE, 218)
    \/ In("WriteHalfWord", 218) /\ SendStep(AddressByte(Top.address), [Top EXCEPT !.pc = 219])
    \/ In("WriteHalfWord", 219) /\ SendStep(LowByte(Top.value), [Top EXCEPT !.pc = 220])
    \/ In("WriteHalfWord", 220)
         /\ SendStep(HighByte(Top.value), [Top EXCEPT !.pc = 221])
    \/ In("WriteHalfWord", 221) /\ StopStep(223)
    \/ In("WriteHalfWord", 223) /\ PostCheck(212, 0)

(* EepromM24C::ReadByte *)

ReadByte ==
    \/ In("ReadByte", 290) /\ SelectStep(295)
    \/ In("ReadByte", 295) /\ PreCheck(297, 300)
    \/ In("ReadByte", 297) /\ InitStep(300)
    \/ In("ReadByte", 300) /\ StartStep(TX, FALSE, 301)
    \/ In("ReadByte", 301) /\ SendStep(AddressByte(Top.address), [Top EXCEPT !.pc = 302])
    \/ In("ReadByte", 302) /\ StartStep(RX, FALSE, 303)
    \/ /\ In("ReadByte", 303)
       /\ \E bytes \in ReadResults(1) :
            /\ I2C_Read(1, bytes)
            /\ Sent(<<"ReadByte", bytes[1]>>)
            /\ Set([Top EXCEPT !.read_value = bytes[1], !.pc = 305])
       /\ UNCHANGED <<buffer, script, ncalls, retval, ntx, memAtCall>>
    \/ In("ReadByte", 305) /\ PostCheck(295, Top.read_value)

(* EepromM24C::ReadHalfWord *)

ReadHalfWord ==
    \/ In("ReadHalfWord", 318) /\ SelectStep(323)
    \/ In("ReadHalfWord", 323) /\ PreCheck(325, 328)
    \/ In("ReadHalfWord", 325) /\ InitStep(328)
    \/ In("ReadHalfWord", 328) /\ StartStep(TX, TRUE, 329)
    \/ In("ReadHalfWord", 329) /\ SendStep(AddressByte(Top.address), [Top EXCEPT !.pc = 330])
    \/ In("ReadHalfWord", 330) /\ StartStep(RX, FALSE, 331)
    \/ /\ In("ReadHalfWord", 331)
       /\ \E bytes \in ReadResults(2) :
            /\ I2C_Read(2, bytes)
            /\ Sent(<<"ReadHalfWord", bytes[1] + 256 * bytes[2]>>)
            /\ Set([Top EXCEPT !.read_value = bytes[1] + 256 * bytes[2],
                               !.pc = 333])
       /\ UNCHANGED <<buffer, script, ncalls, retval, ntx, memAtCall>>
    \/ In("ReadHalfWord", 333) /\ PostCheck(323, Top.read_value)

(* EepromM24C::WritePage *)

\* The for loop over the page's bytes: the line after byte i has been sent.
PageLoop_OffByOne(i, data_size, pcBody, pcExit) ==
    IF i <= data_size THEN pcBody ELSE pcExit

PageLoop(i, data_size, pcBody, pcExit) == IF i < data_size THEN pcBody ELSE pcExit

WritePage ==
    \/ In("WritePage", 236) /\ SelectStep(240)
    \/ In("WritePage", 240) /\ PreCheck(242, 245)
    \/ In("WritePage", 242) /\ InitStep(245)
    \/ In("WritePage", 245) /\ StartStep(TX, FALSE, 246)
    \/ In("WritePage", 246)
         /\ SendStep(AddressByte(Top.address),
                     [Top EXCEPT !.i = 0,
                                 !.pc = PageLoop(0, Top.data_size, 250, 253)])
    \/ /\ In("WritePage", 250)
       /\ \E b \in BufAt(Top.data + Top.i + 1) :
            SendStep(b, [Top EXCEPT !.i = U8(Top.i + 1),
                                    !.pc = PageLoop(U8(Top.i + 1), Top.data_size,
                                                    250, 253)])
    \/ In("WritePage", 253) /\ StopStep(255)
    \/ In("WritePage", 255) /\ PostCheck(240, 0)

(* EepromM24C::WriteBlock *)

\* data_size / PAGE_SIZE
FullPages_RoundUp(data_size) == (data_size + PAGE_SIZE - 1) \div PAGE_SIZE

FullPages(data_size) == data_size \div PAGE_SIZE

Remainder_FullPage(data_size) ==
    IF data_size % PAGE_SIZE = 0 THEN PAGE_SIZE ELSE U8(data_size % PAGE_SIZE)

Remainder_Dropped(data_size) == 0

\* data_size % PAGE_SIZE, passed as uint8_t
Remainder(data_size) == U8(data_size % PAGE_SIZE)

Quiet == UNCHANGED <<buffer, script, ncalls, retval, err, faults, wire, ntx,
                     ninit, nerr, dev, memAtCall>>

WriteBlock ==
    \/ /\ In("WriteBlock", 268)
       /\ Set([Top EXCEPT !.remaining_full_pages = FullPages(Top.data_size),
                          !.pc = IF FullPages(Top.data_size) >= 1
                                 THEN 272 ELSE 279])
       /\ Quiet
    \/ /\ In("WriteBlock", 272)
       /\ Invoke(Frame("WritePage", 236, Top.data, Top.address, 0, PAGE_SIZE), 274)
       /\ Quiet
    \/ /\ In("WriteBlock", 274)
       /\ Set([Top EXCEPT !.data = Top.data + PAGE_SIZE,
                          !.address = U16(Top.address + PAGE_SIZE),
                          !.remaining_full_pages = Top.remaining_full_pages - 1,
                          !.pc = IF Top.remaining_full_pages - 1 >= 1
                                 THEN 272 ELSE 279])
       /\ Quiet
    \/ /\ In("WriteBlock", 279)
       /\ Invoke(Frame("WritePage", 236, Top.data, Top.address, 0,
                       Remainder(Top.data_size)), 280)
       /\ Quiet
    \/ /\ In("WriteBlock", 280)
       /\ Return(0)
       /\ UNCHANGED <<buffer, script, err, faults, wire, ntx, ninit, nerr, dev,
                      memAtCall>>

(* EepromM24C::ReadBlock *)

\* The caller's buffer after bytes were stored from offset data on.
Stored(buf, data, bytes) ==
    [k \in 1 .. Len(buf) |->
        IF k > data /\ k <= data + Len(bytes) THEN bytes[k - data] ELSE buf[k]]

ReadBlock ==
    \/ In("ReadBlock", 348) /\ SelectStep(352)
    \/ In("ReadBlock", 352) /\ PreCheck(354, 357)
    \/ In("ReadBlock", 354) /\ InitStep(357)
    \/ In("ReadBlock", 357) /\ StartStep(TX, FALSE, 358)
    \/ In("ReadBlock", 358) /\ SendStep(AddressByte(Top.address), [Top EXCEPT !.pc = 359])
    \/ In("ReadBlock", 359) /\ StartStep(RX, FALSE, 360)
    \/ /\ In("ReadBlock", 360)
       /\ \E bytes \in ReadResults(Top.data_size) :
            /\ I2C_Read(Top.data_size, bytes)
            /\ buffer' = Stored(buffer, Top.data, bytes)
       /\ Sent(<<"ReadMultipleBytes", Top.data_size>>)
       /\ Goto(362)
       /\ UNCHANGED <<script, ncalls, retval, ntx, memAtCall>>
    \/ In("ReadBlock", 362) /\ PostCheck(352, 0)

(* EepromM24C::ErasePage *)

ErasePage ==
    \/ In("ErasePage", 372) /\ SelectStep(376)
    \/ In("ErasePage", 376) /\ PreCheck(378, 381)
    \/ In("ErasePage", 378) /\ InitStep(381)
    \/ In("ErasePage", 381) /\ StartStep(TX, FALSE, 382)
    \/ In("ErasePage", 382)
         /\ SendStep(AddressByte(Top.address),
                     [Top EXCEPT !.i = 0,
                                 !.pc = PageLoop(0, PAGE_SIZE, 386, 389)])
    \/ In("ErasePage", 386)
         /\ SendStep(ERASE_VALUE,
                     [Top EXCEPT !.i = U8(Top.i + 1),
                                 !.pc = PageLoop(U8(Top.i + 1), PAGE_SIZE, 386, 389)])
    \/ In("ErasePage", 389) /\ StopStep(391)
    \/ In("ErasePage", 391) /\ PostCheck(376, 0)

(* EepromM24C::ChipErase *)

EraseLoop_SkipLast(i) == IF i < MEMORY_SIZE - PAGE_SIZE THEN 402 ELSE 404

\* i < MEMORY_SIZE: the line the for loop goes to with the counter at i.
EraseLoop(i) == IF i < MEMORY_SIZE THEN 402 ELSE 404

ChipErase ==
    \/ /\ In("ChipErase", 400)
       /\ Set([Top EXCEPT !.i = 0, !.pc = EraseLoop(0)])
       /\ Quiet
    \/ /\ In("ChipErase", 402)
       /\ Invoke(Frame("ErasePage", 372, 0, U16(Top.i), 0, 0), 403)
       /\ Quiet
    \/ /\ In("ChipErase", 403)
       /\ Set([Top EXCEPT !.i = Top.i + PAGE_SIZE,
                          !.pc = EraseLoop(Top.i + PAGE_SIZE)])
       /\ Quiet
    \/ /\ In("ChipErase", 404)
       /\ Return(0)
       /\ UNCHANGED <<buffer, script, err, faults, wire, ntx, ninit, nerr, dev,
                      memAtCall>>

----------------------------------------------------------------------------
(* The caller *)

\* The first line of each public operation.
Entry(op) ==
    CASE op = "WriteByte" -> 183
      [] op = "WriteHalfWord" -> 208
      [] op = "WriteBlock" -> 268
      [] op = "ReadByte" -> 290
      [] op = "ReadHalfWord" -> 318
      [] op = "ReadBlock" -> 348
      [] op = "ErasePage" -> 372
      [] op = "ChipErase" -> 400

CallRec(op, address, value, data, data_size) ==
    [op |-> op, address |-> address, value |-> value, data |-> data,
     data_size |-> data_size]

\* The caller makes its next public call; data is the buffer it passes, a
\* zeroed one of data_size bytes for ReadBlock.
Call ==
    /\ stack = <<>>
    /\ ncalls < Len(script)
    /\ LET c == script[ncalls + 1] IN
         /\ stack' = <<Frame(c.op, Entry(c.op), 0, c.address, c.value, c.data_size)>>
         /\ buffer' = IF c.op = "ReadBlock" THEN Zeros(c.data_size) ELSE c.data
    /\ wire' = <<>>
    /\ ntx' = 0
    /\ ninit' = 0
    /\ nerr' = 0
    /\ memAtCall' = mem
    /\ UNCHANGED <<script, ncalls, retval, err, faults, dev>>

----------------------------------------------------------------------------
(* Initial states *)

ByteVals == {0, 165, 255}
HalfVals == {0, 4660, 65280, 52719}
Seeds == {0, 37}

\* Block data whose bytes differ from position to position.
BlockData(n, s) == [k \in 1 .. n |-> (k * 3 + s) % 256]

InitWith(calls, f, s) ==
    /\ stack = <<>>
    /\ buffer = <<>>
    /\ script = calls
    /\ ncalls = 0
    /\ retval = 0
    /\ err = FALSE
    /\ faults = f
    /\ wire = <<>>
    /\ ntx = 0
    /\ ninit = 0
    /\ nerr = 0
    /\ seed = s
    /\ mem = <<>>
    /\ devPhase = "idle"
    /\ devPtr = 0
    /\ devBuf = <<>>
    /\ memAtCall = <<>>

\* Addresses at which operations are also run with bus faults.
FaultAddrs == {0, 128, 256, 1920, 2046}

\* Page-aligned addresses at which blocks are written.
PageAddrs == {0, 16, 240, 1008, 2016, 2032}

NoData == <<>>

(* WriteByte(a, v); ReadByte(a) for every address *)

ByteScript(a, v) ==
    << CallRec("WriteByte", a, v, NoData, 0), CallRec("ReadByte", a, 0, NoData, 0) >>

InitByte ==
    \E a \in Addrs, v \in ByteVals, s \in Seeds, f \in 0 .. MaxErrors :
        /\ (f > 0 => a \in FaultAddrs)
        /\ InitWith(ByteScript(a, v), f, s)

NextByte == Call \/ WriteByte \/ ReadByte

SpecByte == InitByte /\ [][NextByte]_vars

(* WriteHalfWord(a, v); ReadHalfWord(a) for every even address *)

HalfScript(a, v) ==
    << CallRec("WriteHalfWord", a, v, NoData, 0),
       CallRec("ReadHalfWord", a, 0, NoData, 0) >>

InitHalf ==
    \E a \in Addrs, v \in HalfVals, s \in Seeds, f \in 0 .. MaxErrors :
        /\ a % 2 = 0
        /\ (f > 0 => a \in FaultAddrs)
        /\ InitWith(HalfScript(a, v), f, s)

NextHalf == Call \/ WriteHalfWord \/ ReadHalfWord

SpecHalf == InitHalf /\ [][NextHalf]_vars

(* WriteBlock(data, A, n); ReadBlock(out, A, n) at page-aligned addresses *)

BlockScript(a, n, s) ==
    << CallRec("WriteBlock", a, 0, BlockData(n, s), n),
       CallRec("ReadBlock", a, 0, NoData, n) >>

InitBlock ==
    \E a \in PageAddrs, n \in 0 .. MaxBlock, s \in Seeds, f \in 0 .. MaxErrors :
        /\ a + n <= MEMORY_SIZE
        /\ (f > 0 => a \in FaultAddrs)
        /\ InitWith(BlockScript(a, n, s), f, s)

NextBlock == Call \/ WriteBlock \/ WritePage \/ ReadBlock

SpecBlock == InitBlock /\ [][NextBlock]_vars

(* WriteBlock(data, a, n); ReadBlock(out, a, n) at any address *)

\* Addresses inside a page, with the distance to the page start 5, 10, 15
\* and 1, and two page-aligned ones.
BlockAddrs == {5, 250, 1023, 2001, 0, 1008}

InitAnyBlock ==
    \E a \in BlockAddrs, n \in 0 .. MaxBlock, s \in Seeds, f \in 0 .. MaxErrors :
        /\ a + n <= MEMORY_SIZE
        /\ (f > 0 => a \in {250, 1008})
        /\ InitWith(BlockScript(a, n, s), f, s)

SpecAnyBlock == InitAnyBlock /\ [][NextBlock]_vars

(* ChipErase(); ChipErase(); ReadBlock(out, 0, MEMORY_SIZE) *)

EraseScript ==
    << CallRec("ChipErase", 0, 0, NoData, 0),
       CallRec("ChipErase", 0, 0, NoData, 0),
       CallRec("ReadBlock", 0, 0, NoData, MEMORY_SIZE) >>

InitErase ==
    \E s \in Seeds, f \in 0 .. MaxErrors : InitWith(EraseScript, f, s)

NextErase == Call \/ ChipErase \/ ErasePage \/ ReadBlock

SpecErase == InitErase /\ [][NextErase]_vars

(* One call of each public operation, run to completion *)

LiveCalls ==
    { CallRec("WriteByte", 300, 165, NoData, 0),
      CallRec("WriteHalfWord", 510, 4660, NoData, 0),
      CallRec("WriteBlock", 240, 0, BlockData(20, 37), 20),
      CallRec("ReadByte", 300, 0, NoData, 0),
      CallRec("ReadHalfWord", 510, 0, NoData, 0),
      CallRec("ReadBlock", 250, 0, NoData, 20),
      CallRec("ErasePage", 2032, 0, NoData, 0),
      CallRec("ChipErase", 0, 0, NoData, 0) }

InitLive ==
    \E c \in LiveCalls, f \in 0 .. MaxErrors : InitWith(<<c>>, f, 37)

Next ==
    \/ Call
    \/ WriteByte
    \/ WriteHalfWord
    \/ WritePage
    \/ WriteBlock
    \/ ReadByte
    \/ ReadHalfWord
    \/ ReadBlock
    \/ ErasePage
    \/ ChipErase

Spec == InitLive /\ [][Next]_vars

SpecLive == Spec /\ WF_vars(Next)

----------------------------------------------------------------------------
(* Reading the state *)

\* The k-th public call has returned and the next one has not been made.
Returned(k) == stack = <<>> /\ ncalls = k

\* The bus transaction of the current attempt: its transport calls without
\* the IsStateError queries and Init.
BusCalls(w) == SelectSeq(w, LAMBDA c : c[1] \notin {"IsStateError", "Init"})

\* The write transaction of the given data bytes at address a.
WriteTx(a, bytes) ==
    << <<"StartPolling", 160 + 2 * ((a \div 256) % 8), TX, FALSE>>,
       <<"WriteByte", a % 256>> >>
    \o [j \in 1 .. Len(bytes) |-> <<"WriteByte", bytes[j]>>]
    \o << <<"Stop">> >>

----------------------------------------------------------------------------
(* Claims *)

\* C1: for every address a in [0, 2048) and every byte v, from any initial
\* memory content, once WriteByte(a, v) has returned the device cell a (select
\* code bits 1-3 as address bits 8-10, address byte as bits 0-7) holds v, and
\* a following ReadByte(a) returns v.
C1_WriteReadByte ==
    /\ (Returned(1) /\ script[1].op = "WriteByte")
         => MemAt(mem, script[1].address) = script[1].value
    /\ (/\ Returned(2)
        /\ script[1].op = "WriteByte"
        /\ script[2].op = "ReadByte"
        /\ script[2].address = script[1].address)
         => retval = script[1].value

C1_Witness ==
    /\ Returned(2)
    /\ script[1].op = "WriteByte"
    /\ script[2].op = "ReadByte"
    /\ script[1].address = 2047
    /\ script[1].value = 165
    /\ Blank(seed, 2047) # 165
    /\ retval = 165

\* C2: for every even address a in [0, 2048) and every 16-bit value v, each
\* attempt of WriteHalfWord(a, v) puts the low byte of v on the bus before the
\* high byte, and a following ReadHalfWord(a), whose transport assembles the
\* two bytes little-endian, returns v.
C2_WriteReadHalfWord ==
    /\ In("WriteHalfWord", 223)
         => BusCalls(wire) =
              WriteTx(Top.address, <<Top.value % 256, Top.value \div 256>>)
    /\ (/\ Returned(2)
        /\ script[1].op = "WriteHalfWord"
        /\ script[2].op = "ReadHalfWord"
        /\ script[2].address = script[1].address
        /\ script[1].address % 2 = 0)
         => retval = script[1].value

C2_Witness ==
    /\ Returned(2)
    /\ script[1].op = "WriteHalfWord"
    /\ script[2].op = "ReadHalfWord"
    /\ script[1].address = 2046
    /\ script[1].value = 4660
    /\ retval = 4660

\* A frame that has derived its device select code.
Selected ==
    /\ stack # <<>>
    /\ Top.fn \in {"WriteByte", "ReadByte"}
    /\ Top.pc # Entry(Top.fn)

\* C3 as stated: the select code is a function of the address with
\* select(0x0000) = 0xA0, select(0x0080) = 0xA2, select(0x0100) = 0xA2 and
\* select(0x0780) = 0xAE.
C3_SelectAsStated ==
    Selected =>
        /\ Top.address = 0 => Top.device_code = 160
        /\ Top.address = 128 => Top.device_code = 162
        /\ Top.address = 256 => Top.device_code = 162
        /\ Top.address = 1920 => Top.device_code = 174

\* C3, amended: the select code is a function of the address alone, 0xA0 plus
\* twice the address bits 8-10, so that select(0x0000) = 0xA0,
\* select(0x0080) = 0xA0, select(0x0100) = 0xA2 and select(0x0780) = 0xAE.
C3_SelectAmended ==
    Selected =>
        /\ Top.device_code = 160 + 2 * ((Top.address \div 256) % 8)
        /\ Top.address = 0 => Top.device_code = 160
        /\ Top.address = 128 => Top.device_code = 160
        /\ Top.address = 256 => Top.device_code = 162
        /\ Top.address = 1920 => Top.device_code = 174

C3_Witness ==
    /\ Selected
    /\ Top.address = 128
    /\ Top.device_code = 160

\* C4: for every address a in [0, 2048), whenever the driver has sent a select
\* code in transmit mode and the byte after it, that byte is the low 8 bits of
\* a, the select code has high nibble 0xA, bit 0 clear and bits 1-3 equal to
\* bits 8-10 of a; the pair therefore decodes back to a, so distinct addresses
\* give distinct pairs.
C4_AddressSplit ==
    stack # <<>> =>
      \A j \in 1 .. (Len(wire) - 1) :
        (wire[j][1] = "StartPolling" /\ wire[j][3] = TX) =>
          LET code == wire[j][2]
              byte == wire[j + 1][2]
              a == Top.address
          IN  /\ wire[j + 1][1] = "WriteByte"
              /\ byte = a % 256
              /\ code \div 16 = 10
              /\ code % 2 = 0
              /\ (code \div 2) % 8 = (a \div 256) % 8
              /\ (code - 160) * 128 + byte = a

C4_Witness ==
    /\ In("WriteByte", 194)
    /\ Top.address = 1920
    /\ wire[Len(wire) - 1] = <<"StartPolling", 174, TX, FALSE>>
    /\ wire[Len(wire)] = <<"WriteByte", 128>>

\* The data WriteBlock's k-th page transaction (k from 0) must carry when the
\* block is c.data, of c.data_size bytes.
PageData(c, k) ==
    LET len == IF k < c.data_size \div 16 THEN 16 ELSE c.data_size % 16
    IN  [j \in 1 .. len |-> c.data[16 * k + j]]

\* C5: with no bus errors, WriteBlock of n bytes at a page-aligned address A
\* issues page transactions number 0, 1, ..., floor(n/16): transaction k is at
\* address A + 16k, the first floor(n/16) carry 16 data bytes each and the
\* last one carries n mod 16; there are floor(n/16) + 1 in all (for n = 33 at
\* address 0: 16, 16, 1).
C5_BlockSegmentation ==
    (/\ ncalls = 0
     /\ script[1].op = "WriteBlock"
     /\ script[1].address % 16 = 0
     /\ nerr = 0
     /\ ninit = 0) =>
        /\ In("WritePage", 255) =>
             /\ ntx <= script[1].data_size \div 16
             /\ Top.address = script[1].address + 16 * ntx
             /\ BusCalls(wire) =
                  WriteTx((script[1].address + 16 * ntx) % 2048,
                          PageData(script[1], ntx))
        /\ In("WriteBlock", 280) => ntx = script[1].data_size \div 16 + 1

C5_Witness ==
    /\ In("WriteBlock", 280)
    /\ script[1].address = 0
    /\ script[1].data_size = 33
    /\ nerr = 0
    /\ ntx = 3

\* C6: with no bus errors, ChipErase issues page-erase transactions number
\* 0, 1, ..., 127: transaction k is at address 16k and carries exactly 16 data
\* bytes, all 0xFF; there are 128 in all.
C6_ChipEraseTransactions ==
    (/\ ncalls = 0
     /\ script[1].op = "ChipErase"
     /\ nerr = 0
     /\ ninit = 0) =>
        /\ In("ErasePage", 391) =>
             /\ ntx < 128
             /\ Top.address = 16 * ntx
             /\ BusCalls(wire) = WriteTx(16 * ntx, [j \in 1 .. 16 |-> 255])
        /\ In("ChipErase", 404) => ntx = 128

C6_Witness ==
    /\ In("ChipErase", 404)
    /\ ncalls = 0
    /\ nerr = 0
    /\ ninit = 0
    /\ ntx = 128

\* C7: from any initial memory content, once ChipErase has returned every
\* byte of device memory in [0, 2048) is 0xFF, and a following ReadBlock of
\* 2048 bytes from address 0 fills the buffer with 0xFF.
C7_ChipEraseAllFF ==
    /\ (Returned(1) /\ script[1].op = "ChipErase")
         => \A a \in 0 .. 2047 : MemAt(mem, a) = 255
    /\ (/\ Returned(3)
        /\ script[2].op = "ChipErase"
        /\ script[3].op = "ReadBlock"
        /\ script[3].address = 0
        /\ script[3].data_size = 2048)
         => /\ Len(buffer) = 2048
            /\ \A k \in 1 .. 2048 : buffer[k] = 255

C7_Witness ==
    /\ Returned(3)
    /\ script[3].op = "ReadBlock"
    /\ seed = 37
    /\ Blank(seed, 2047) # 255
    /\ buffer[2048] = 255

\* C8: ChipErase is idempotent on device memory: when a second ChipErase in a
\* row has returned, every byte of memory is what it was when the first one
\* had returned.
C8_ChipEraseIdempotent ==
    (/\ Returned(2)
     /\ script[1].op = "ChipErase"
     /\ script[2].op = "ChipErase")
        => \A a \in 0 .. 2047 : MemAt(mem, a) = MemAt(memAtCall, a)

C8_Witness ==
    /\ Returned(2)
    /\ script[1].op = "ChipErase"
    /\ script[2].op = "ChipErase"
    /\ seed = 37
    /\ Written(mem) = 0 .. 2047

\* C9: when the transport enters the error state exactly once during
\* WriteByte(a, v), at whatever step, the driver calls Init once and makes a
\* second attempt, the value committed at a when it returns is v, and every
\* attempt the transport sees, the failed one included, is the whole
\* transaction: start, address byte, data byte, stop.  No cell but a is
\* written.
C9_TransientError ==
    /\ In("WriteByte", 197)
         => BusCalls(wire) = WriteTx(Top.address, <<Top.value>>)
    /\ (ncalls = 0 /\ script[1].op = "WriteByte")
         => \A b \in Written(mem) \ {script[1].address} :
                MemAt(mem, b) = Blank(seed, b)
    /\ (Returned(1) /\ script[1].op = "WriteByte" /\ nerr = 1)
         => /\ ninit = 1
            /\ ntx = 2
            /\ MemAt(mem, script[1].address) = script[1].value

C9_Witness ==
    /\ Returned(1)
    /\ script[1].op = "WriteByte"
    /\ nerr = 1
    /\ ninit = 1
    /\ ntx = 2
    /\ script[1].value # Blank(seed, script[1].address)
    /\ MemAt(mem, script[1].address) = script[1].value

\* Every public call of the script has returned.
AllReturned == stack = <<>> /\ ncalls = Len(script)

\* C10: no operation reports an error and nothing bounds the retries: when
\* the transport enters the error state only finitely often and Init clears
\* it, every public operation eventually returns, and a function of the
\* driver never returns while the transport is in the error state (so that an
\* operation whose every attempt ends in the error state never returns).
C10_RetryForever ==
    /\ <>AllReturned
    /\ [][Len(stack') < Len(stack) => ~err]_vars

C10_Witness ==
    /\ AllReturned
    /\ script[1].op = "ChipErase"
    /\ nerr = MaxErrors
    /\ ntx = 128 + MaxErrors

----------------------------------------------------------------------------
(* The retry loop, read from the state *)

\* The functions that hold a retry loop.
LoopFns == {"WriteByte", "WriteHalfWord", "WritePage", "ReadByte",
            "ReadHalfWord", "ReadBlock", "ErasePage"}

\* The line that derives the device select code.
SelectLine(fn) ==
    CASE fn = "WriteByte" -> 183
      [] fn = "WriteHalfWord" -> 208
      [] fn = "WritePage" -> 236
      [] fn = "ReadByte" -> 290
      [] fn = "ReadHalfWord" -> 318
      [] fn = "ReadBlock" -> 348
      [] fn = "ErasePage" -> 372

\* The first line of the loop body, if (i2c.IsStateError()).
LoopHead(fn) ==
    CASE fn = "WriteByte" -> 187
      [] fn = "WriteHalfWord" -> 212
      [] fn = "WritePage" -> 240
      [] fn = "ReadByte" -> 295
      [] fn = "ReadHalfWord" -> 323
      [] fn = "ReadBlock" -> 352
      [] fn = "ErasePage" -> 376

\* The line of the loop's closing while (i2c.IsStateError()).
CheckLine(fn) ==
    CASE fn = "WriteByte" -> 197
      [] fn = "WriteHalfWord" -> 223
      [] fn = "WritePage" -> 255
      [] fn = "ReadByte" -> 305
      [] fn = "ReadHalfWord" -> 333
      [] fn = "ReadBlock" -> 362
      [] fn = "ErasePage" -> 391

\* The innermost frame is in a retry loop, at its closing check.
AtCheck == stack # <<>> /\ Top.fn \in LoopFns /\ Top.pc = CheckLine(Top.fn)

\* The closing check of an attempt has just reported an error.
JustFailed ==
    /\ stack # <<>>
    /\ Top.fn \in LoopFns
    /\ Len(wire) > 1
    /\ wire[Len(wire)] = <<"IsStateError", TRUE>>

\* C11: in every attempt of every operation the first transport call is the
\* IsStateError query, so it precedes the first StartPolling; when the query
\* reported an error the next call is Init, before that StartPolling; Init is
\* called nowhere else, so at most once per error, and never in a call during
\* which no error occurred.
C11_InitOnlyOnError ==
    /\ \A j \in 1 .. Len(wire) :
         /\ wire[j][1] = "StartPolling"
              => (j >= 2 /\ wire[1][1] = "IsStateError")
         /\ wire[j][1] = "Init"
              => (j = 2 /\ wire[1] = <<"IsStateError", TRUE>>)
    /\ (Len(wire) >= 2 /\ wire[1] = <<"IsStateError", TRUE>>)
         => wire[2] = <<"Init">>
    /\ ninit <= nerr
    /\ nerr = 0 => ninit = 0

C11_Witness ==
    /\ In("ErasePage", 382)
    /\ Len(wire) = 3
    /\ wire[1] = <<"IsStateError", TRUE>>
    /\ wire[2] = <<"Init">>
    /\ wire[3] = <<"StartPolling", 174, TX, FALSE>>

WriteFns == {"WriteByte", "WriteHalfWord", "WritePage", "ErasePage"}

ReadFns == {"ReadByte", "ReadHalfWord", "ReadBlock"}

\* The data bytes the write-type frame f has to send, in order.
DataOf(f) ==
    CASE f.fn = "WriteByte" -> <<f.value>>
      [] f.fn = "WriteHalfWord" -> <<f.value % 256, f.value \div 256>>
      [] f.fn = "WritePage" -> [j \in 1 .. f.data_size |-> buffer[f.data + j]]
      [] f.fn = "ErasePage" -> [j \in 1 .. 16 |-> 255]

\* The read primitive the read frame f calls.
PrimitiveOf(f) ==
    CASE f.fn = "ReadByte" -> "ReadByte"
      [] f.fn = "ReadHalfWord" -> "ReadHalfWord"
      [] f.fn = "ReadBlock" -> "ReadMultipleBytes"

\* The select code of address a: 0xA0 with address bits 8-10 in bits 1-3.
SelectOf(a) == 160 + 2 * ((a \div 256) % 8)

\* The bus calls w are the read transaction of frame f.
ReadTx(f, w) ==
    /\ Len(w) = 4
    /\ w[1] = <<"StartPolling", SelectOf(f.address), TX, f.fn = "ReadHalfWord">>
    /\ w[2] = <<"WriteByte", f.address % 256>>
    /\ w[3] = <<"StartPolling", SelectOf(f.address), RX, FALSE>>
    /\ w[4][1] = PrimitiveOf(f)

\* The bus calls w are the whole transaction of frame f, from the start
\* condition on.
Whole(f, w) ==
    IF f.fn \in WriteFns THEN w = WriteTx(f.address, DataOf(f)) ELSE ReadTx(f, w)

\* An attempt that began in the error state, that is a retry, has called
\* Init and then made the whole transaction from the start condition on; and
\* no attempt begins with anything but the start condition.
RetryIsWhole ==
    /\ (AtCheck /\ wire[1] = <<"IsStateError", TRUE>>)
         => /\ wire[2] = <<"Init">>
            /\ Whole(Top, BusCalls(wire))
    /\ (stack # <<>> /\ Top.fn \in LoopFns /\ BusCalls(wire) # <<>>)
         => BusCalls(wire)[1][1] = "StartPolling"

\* C12 as stated: when the closing check of an attempt finds the error state
\* set, the driver retries the operation from the beginning, the derivation
\* of the device select code included, and the retry is the whole
\* transaction.
C12_RetryAsStated ==
    /\ RetryIsWhole
    /\ JustFailed => Top.pc = SelectLine(Top.fn)

\* C12, amended: when the closing check of an attempt finds the error state
\* set, the driver goes back to the head of its loop and keeps the device
\* select code it derived once on entry; the retry calls Init and re-issues
\* the start condition with that select code, the address byte and every data
\* byte, and never resumes in the middle of the failed transaction.
C12_RetryFromLoopHead ==
    /\ RetryIsWhole
    /\ JustFailed
         => /\ Top.pc = LoopHead(Top.fn)
            /\ Top.device_code = SelectOf(Top.address)

C12_Witness ==
    /\ In("WritePage", 255)
    /\ Top.data_size = 16
    /\ wire[1] = <<"IsStateError", TRUE>>
    /\ ~err
    /\ ntx = 1
    /\ Whole(Top, BusCalls(wire))

\* The number of calls of the given transport function in w.
Count(w, name) == Cardinality({j \in 1 .. Len(w) : w[j][1] = name})

\* w is an initial part of t.
IsPrefix(w, t) == Len(w) <= Len(t) /\ \A j \in 1 .. Len(w) : w[j] = t[j]

\* The innermost frame is inside an attempt: past the query that opens it.
InAttempt ==
    /\ stack # <<>>
    /\ Top.fn \in LoopFns
    /\ Top.pc \notin {SelectLine(Top.fn), LoopHead(Top.fn)}

\* C13: every attempt of WriteByte, WriteHalfWord, WritePage and ErasePage
\* is, when it reaches its closing check, the call sequence
\* StartPolling(select, TX), WriteByte(address mod 256), WriteByte of each
\* data byte in order, Stop, with one StartPolling and one Stop; on the way
\* there the calls made are an initial part of that sequence.  This holds
\* whether or not the transport entered the error state during the attempt.
C13_WriteAttemptShape ==
    /\ (InAttempt /\ Top.fn \in WriteFns)
         => IsPrefix(BusCalls(wire), WriteTx(Top.address, DataOf(Top)))
    /\ (AtCheck /\ Top.fn \in WriteFns)
         => /\ BusCalls(wire) = WriteTx(Top.address, DataOf(Top))
            /\ Count(wire, "StartPolling") = 1
            /\ Count(wire, "Stop") = 1

C13_Witness ==
    /\ In("WriteHalfWord", 223)
    /\ err
    /\ nerr = 1
    /\ BusCalls(wire) =
         << <<"StartPolling", 162, TX, FALSE>>, <<"WriteByte", 254>>,
            <<"WriteByte", 52>>, <<"WriteByte", 18>>, <<"Stop">> >>

\* C14: every attempt of ReadByte, ReadHalfWord and ReadBlock is, when it
\* reaches its closing check, the call sequence StartPolling(select, TX),
\* WriteByte(address mod 256), StartPolling(the same select, RX) and one read
\* primitive (ReadByte, ReadHalfWord, ReadMultipleBytes respectively); the
\* driver calls Stop nowhere in a read operation, and the address byte is the
\* only byte it sends.
C14_ReadAttemptShape ==
    /\ (AtCheck /\ Top.fn \in ReadFns)
         => /\ ReadTx(Top, BusCalls(wire))
            /\ Count(wire, "StartPolling") = 2
            /\ Count(wire, PrimitiveOf(Top)) = 1
    /\ (InAttempt /\ Top.fn \in ReadFns)
         => /\ Count(wire, "Stop") = 0
            /\ Count(wire, "WriteByte") <= 1

C14_Witness ==
    /\ In("ReadBlock", 362)
    /\ BusCalls(wire) =
         << <<"StartPolling", 160, TX, FALSE>>, <<"WriteByte", 250>>,
            <<"StartPolling", 160, RX, FALSE>>, <<"ReadMultipleBytes", 20>> >>

\* What memory holds at x when the block c.data has been stored at
\* c.address .. c.address + c.data_size - 1 over the initial content.
WithBlock(c, x) ==
    IF c.address <= x /\ x < c.address + c.data_size
    THEN c.data[x - c.address + 1]
    ELSE Blank(seed, x)

\* C15: for every page-aligned address A and every n with A + n <= 2048,
\* once WriteBlock(data, A, n) has returned, memory[A + i] = data[i] for all
\* 0 <= i < n, and every other byte of the 2048 is what it was before the
\* call; this includes blocks that cross a 256-byte boundary, where the
\* select code changes from one page to the next.
C15_WriteBlockFrame ==
    (/\ Returned(1)
     /\ script[1].op = "WriteBlock"
     /\ script[1].address % 16 = 0
     /\ script[1].address + script[1].data_size <= 2048)
        => \A x \in 0 .. 2047 : MemAt(mem, x) = WithBlock(script[1], x)

C15_Witness ==
    /\ Returned(1)
    /\ script[1].op = "WriteBlock"
    /\ script[1].address = 240
    /\ script[1].data_size = 35
    /\ seed = 37
    /\ MemAt(mem, 255) = script[1].data[16]
    /\ MemAt(mem, 256) = script[1].data[17]
    /\ MemAt(mem, 274) = script[1].data[35]
    /\ MemAt(mem, 274) # Blank(seed, 274)
    /\ MemAt(mem, 275) = Blank(seed, 275)

\* C20: for every page-aligned address A and every n with A + n <= 2048,
\* WriteBlock(data, A, n) followed by ReadBlock(out, A, n) leaves out[i] =
\* data[i] for all 0 <= i < n; this includes blocks that cross a 256-byte
\* boundary, which WriteBlock writes with one select code per page and
\* ReadBlock reads with the select code of A alone, the device's sequential
\* read carrying its address counter over the boundary.
C20_BlockRoundTrip ==
    (/\ Returned(2)
     /\ script[1].op = "WriteBlock"
     /\ script[2].op = "ReadBlock"
     /\ script[2].address = script[1].address
     /\ script[2].data_size = script[1].data_size
     /\ script[1].address % 16 = 0
     /\ script[1].address + script[1].data_size <= 2048)
        => buffer = script[1].data

C20_Witness ==
    /\ Returned(2)
    /\ script[1].op = "WriteBlock"
    /\ script[2].op = "ReadBlock"
    /\ script[1].address = 1008
    /\ script[1].data_size = 35
    /\ Len(buffer) = 35
    /\ buffer[17] = script[1].data[17]
    /\ buffer[17] # Blank(seed, 1024)
    /\ buffer = script[1].data

\* C16: ReadBlock does not segment: for every start address, page-aligned or
\* not, and every data_size, also when the block crosses page boundaries or
\* a 256-byte boundary, each attempt is one transaction, with the select
\* code of the start address in both StartPolling calls, the low 8 bits of
\* the start address as address byte, and one ReadMultipleBytes call for all
\* data_size bytes; and ReadBlock returns after one attempt when no error
\* occurs.
C16_ReadBlockOneTransaction ==
    (ncalls = 1 /\ script[2].op = "ReadBlock") =>
        /\ In("ReadBlock", 362)
             => /\ Top.address = script[2].address
                /\ Top.data_size = script[2].data_size
                /\ BusCalls(wire) =
                     << <<"StartPolling", SelectOf(script[2].address), TX, FALSE>>,
                        <<"WriteByte", script[2].address % 256>>,
                        <<"StartPolling", SelectOf(script[2].address), RX, FALSE>>,
                        <<"ReadMultipleBytes", script[2].data_size>> >>
        /\ (stack # <<>> /\ nerr = 0) => ntx = 0

C16_Witness ==
    /\ Returned(2)
    /\ script[2].op = "ReadBlock"
    /\ script[2].address = 250
    /\ script[2].data_size = 35
    /\ nerr = 0
    /\ ntx = 1
    /\ BusCalls(wire) =
         << <<"StartPolling", 160, TX, FALSE>>, <<"WriteByte", 250>>,
            <<"StartPolling", 160, RX, FALSE>>, <<"ReadMultipleBytes", 35>> >>

\* C17: WriteBlock does not align its start address.  When the address is r
\* bytes past a page start, 0 < r < 16, and data_size >= 16, every page
\* transaction of 16 data bytes starts r bytes past a page start, at
\* address + 16k, and carries the bytes 16k .. 16k + 15 of the block.  On a
\* device whose page write wraps inside the 16-byte page the last r bytes of
\* the first transaction, data[16 - r .. 15], therefore land in the r cells
\* before address, outside [address, address + data_size), instead of in
\* the cells address + 16 - r .. address + 15.
C17_UnalignedBlockWraps ==
    (/\ script[1].op = "WriteBlock"
     /\ script[1].address % 16 # 0
     /\ script[1].data_size >= 16) =>
        LET a == script[1].address
            r == script[1].address % 16
        IN  /\ (ncalls = 0 /\ In("WritePage", 255) /\ Top.data_size = 16)
                 => /\ Top.address % 16 = r
                    /\ Top.address = a + Top.data
                    /\ BusCalls(wire) =
                         WriteTx(Top.address,
                                 [j \in 1 .. 16 |-> script[1].data[Top.data + j]])
            /\ Returned(1)
                 => \A j \in 0 .. (r - 1) :
                        MemAt(mem, a - r + j) = script[1].data[17 - r + j]

C17_Witness ==
    /\ Returned(1)
    /\ script[1].op = "WriteBlock"
    /\ script[1].address = 250
    /\ script[1].data_size = 20
    /\ seed = 0
    /\ MemAt(mem, 240) = script[1].data[7]
    /\ MemAt(mem, 240) # Blank(seed, 240)
    /\ MemAt(mem, 256) # script[1].data[7]

\* C18: WriteBlock issues its final page write also when data_size is a
\* multiple of 16, zero included.  That page write has data_size 0 and
\* address A + data_size; each of its attempts is StartPolling(select, TX),
\* the address byte and Stop, with no data byte.  Device memory is the same
\* after it as before it, namely the block over the initial content, also
\* when the block ends at the end of memory and the final address is 2048
\* (select code 0xA0, address byte 0).
C18_EmptyFinalPage ==
    (/\ ncalls = 0
     /\ script[1].op = "WriteBlock"
     /\ script[1].address % 16 = 0
     /\ script[1].data_size % 16 = 0) =>
        LET end == script[1].address + script[1].data_size
            tx == << <<"StartPolling", SelectOf(end), TX, FALSE>>,
                     <<"WriteByte", end % 256>>, <<"Stop">> >>
        IN  /\ (stack # <<>> /\ Top.fn = "WritePage" /\ Top.data = script[1].data_size)
                 => /\ Top.data_size = 0
                    /\ Top.address = end
                    /\ Top.pc = 255 => BusCalls(wire) = tx
            /\ (In("WriteBlock", 279) \/ In("WriteBlock", 280))
                 => \A x \in 0 .. 2047 : MemAt(mem, x) = WithBlock(script[1], x)
            /\ In("WriteBlock", 280) => BusCalls(wire) = tx

C18_Witness ==
    /\ In("WriteBlock", 280)
    /\ script[1].address = 2032
    /\ script[1].data_size = 16
    /\ seed = 37
    /\ BusCalls(wire) =
         << <<"StartPolling", 160, TX, FALSE>>, <<"WriteByte", 0>>, <<"Stop">> >>
    /\ MemAt(mem, 2047) = script[1].data[16]
    /\ MemAt(mem, 0) = Blank(seed, 0)

\* The last transport call made.
LastCall == wire[Len(wire)]

\* C19: whatever bus faults occur, a function of the driver has returned
\* only right after an attempt whose closing IsStateError query reported no
\* error; the value ReadByte or ReadHalfWord returns is the one the read
\* primitive delivered in that last attempt, and so is the buffer ReadBlock
\* leaves: the bytes the device holds at the address, never what a failed
\* attempt delivered.
C19_ResultOfLastAttempt ==
    /\ (\/ stack = <<>> /\ ncalls > 0
        \/ In("WriteBlock", 274)
        \/ In("WriteBlock", 280)
        \/ In("ChipErase", 403)
        \/ In("ChipErase", 404))
         => /\ wire # <<>>
            /\ LastCall = <<"IsStateError", FALSE>>
            /\ ~err
    /\ (Returned(1) /\ script[1].op = "ReadByte")
         => /\ wire[Len(wire) - 1] = <<"ReadByte", retval>>
            /\ retval = MemAt(mem, script[1].address)
    /\ (Returned(1) /\ script[1].op = "ReadHalfWord")
         => /\ wire[Len(wire) - 1] = <<"ReadHalfWord", retval>>
            /\ retval = MemAt(mem, script[1].address)
                          + 256 * MemAt(mem, script[1].address + 1)
    /\ (Returned(1) /\ script[1].op = "ReadBlock")
         => buffer = [k \in 1 .. script[1].data_size |->
                        MemAt(mem, script[1].address + k - 1)]

C19_Witness ==
    /\ Returned(1)
    /\ script[1].op = "ReadHalfWord"
    /\ nerr = 1
    /\ ntx = 2
    /\ retval = 219
    /\ wire[Len(wire) - 1] = <<"ReadHalfWord", 219>>

====
